---------------------------- MODULE Spec2Model ----------------------------
(***************************************************************************)
(* Model of the 2D source-panel solver of scripts/5_plots.py               *)
(* (PanelMethodAirfoil, AirfoilComparator and the __main__ sweep).         *)
(*                                                                         *)
(* Floating-point quantities are carried as fixed-point integers with      *)
(* Scale units per 1.0; the non-finite IEEE values the code can produce    *)
(* (0/0, x/0) are carried explicitly by the Float records below.           *)
(***************************************************************************)
EXTENDS Integers, Sequences, FiniteSets, TLC

(***************************************************************************)
(* Fixed-point arithmetic                                                  *)
(***************************************************************************)
\* units per 1.0
Scale == 1000
\* numpy.pi in fixed point
Pi == 3142
HalfPi == 1571
TwoPi == 6283
\* log(2) in fixed point
Ln2 == 693

\* F applied to the value of e, with e evaluated once
With(e, F(_)) == CHOOSE r \in {F(v) : v \in {e}} : TRUE

Abs(a) == IF a < 0 THEN -a ELSE a

Sgn(a) == IF a < 0 THEN -1 ELSE IF a > 0 THEN 1 ELSE 0

\* a / b rounded to the nearest integer (halves away from zero), b # 0
RDiv[a \in Int, b \in Int] ==
    IF (a < 0) = (b < 0) THEN (2 * Abs(a) + Abs(b)) \div (2 * Abs(b))
    ELSE -((2 * Abs(a) + Abs(b)) \div (2 * Abs(b)))

\* fixed-point product and quotient of two finite values
Mul[a \in Int, b \in Int] == RDiv[a * b, Scale]

Quo[a \in Int, b \in Int] == RDiv[a * Scale, b]

SqrtIter[n \in Int, lo \in Int, hi \in Int] ==
    IF hi - lo <= 1 THEN lo
    ELSE IF ((lo + hi) \div 2) * ((lo + hi) \div 2) <= n
         THEN SqrtIter[n, (lo + hi) \div 2, hi]
         ELSE SqrtIter[n, lo, (lo + hi) \div 2]

\* floor of the square root of a natural number below 2^30
ISqrt[n \in Int] == IF n <= 0 THEN 0 ELSE SqrtIter[n, 0, 32768]

\* numpy.sqrt of a fixed-point value
Sqrt[v \in Int] == ISqrt[v * Scale]

\* numpy.sqrt(dx**2 + dy**2) for fixed-point dx, dy
Hypot[dx \in Int, dy \in Int] == ISqrt[dx * dx + dy * dy]

WrapAngle[a \in Int] ==
    IF a > Pi THEN WrapAngle[a - TwoPi]
    ELSE IF a < -Pi THEN WrapAngle[a + TwoPi]
    ELSE a

\* x^3, x^5, x^7 of a fixed-point x, used by the series below
Cube[x \in Int] == Mul[Mul[x, x], x]

Fifth[x \in Int] == Mul[Cube[x], Mul[x, x]]

Seventh[x \in Int] == Mul[Fifth[x], Mul[x, x]]

\* Taylor polynomial of sin on [-pi/2, pi/2]
SinCore[x \in Int] == x - RDiv[Cube[x], 6] + RDiv[Fifth[x], 120] - RDiv[Seventh[x], 5040]

\* sin of an angle in [-pi, pi]
SinWrapped[w \in Int] ==
    IF w > HalfPi THEN SinCore[Pi - w]
    ELSE IF w < -HalfPi THEN SinCore[-Pi - w]
    ELSE SinCore[w]

\* numpy.sin
Sin[a \in Int] == SinWrapped[WrapAngle[a]]

\* numpy.cos
Cos[a \in Int] == Sin[a + HalfPi]

\* arctan series on [0, tan(pi/8)]
AtanCore[q \in Int] == q - RDiv[Cube[q], 3] + RDiv[Fifth[q], 5] - RDiv[Seventh[q], 7]

\* arctan of q in [0, 1], by the half-angle reduction
AtanUnit[q \in Int] == 2 * AtanCore[Quo[q, Scale + Sqrt[Scale + Mul[q, q]]]]

\* arctan of n/d for n >= 0, d > 0
AtanPos[n \in Int, d \in Int] ==
    IF n <= d THEN AtanUnit[Quo[n, d]] ELSE HalfPi - AtanUnit[Quo[d, n]]

\* numpy.arctan2(y, x); arctan2(0, 0) = 0
Atan2[y \in Int, x \in Int] ==
    IF x = 0 /\ y = 0 THEN 0
    ELSE IF x = 0 THEN (IF y > 0 THEN HalfPi ELSE -HalfPi)
    ELSE IF x > 0 THEN Sgn(y) * AtanPos[Abs(y), x]
    ELSE IF y >= 0 THEN Pi - AtanPos[y, -x]
    ELSE AtanPos[-y, -x] - Pi

\* 2 * artanh(z): log of the mantissa m from z = (m - 1) / (m + 1)
LnSeries[z \in Int] == 2 * (z + RDiv[Cube[z], 3] + RDiv[Fifth[z], 5])

\* log of v > 0, reduced to a mantissa in [Scale, 2*Scale)
LnNorm[v \in Int, k \in Int] ==
    IF v >= 2 * Scale THEN LnNorm[v \div 2, k + 1]
    ELSE IF v < Scale THEN LnNorm[v * 2, k - 1]
    ELSE k * Ln2 + LnSeries[Quo[v - Scale, v + Scale]]

\* numpy.log of a finite positive value
Ln[v \in Int] == LnNorm[v, 0]

\* numpy.radians of an angle in whole degrees
Radians[deg \in Int] == RDiv[deg * Pi, 180]

(***************************************************************************)
(* IEEE non-finite values: the result of a floating-point division         *)
(***************************************************************************)
Fin(v) == [kind |-> "fin", v |-> v]

NaN == [kind |-> "nan", v |-> 0]

Inf(s) == [kind |-> "inf", v |-> s]

IsFinite(f) == f.kind = "fin"

\* a / b in floating point: 0/0 is nan, x/0 is +-inf (numpy warnings are ignored)
FDiv[a \in Int, b \in Int] ==
    IF b # 0 THEN Fin(Quo[a, b])
    ELSE IF a = 0 THEN NaN
    ELSE Inf(Sgn(a))

\* 1 - f**2 for a floating-point f
OneMinusSquare(f) ==
    IF f.kind = "nan" THEN NaN
    ELSE IF f.kind = "inf" THEN Inf(-1)
    ELSE Fin(Scale - Mul[f.v, f.v])

(***************************************************************************)
(* Sequence helpers                                                        *)
(***************************************************************************)
Last(s) == s[Len(s)]

\* numpy.diff
Diff(s) == [i \in 1..(Len(s) - 1) |-> s[i + 1] - s[i]]

RECURSIVE SumTo(_, _)
SumTo(s, n) == IF n = 0 THEN 0 ELSE SumTo(s, n - 1) + s[n]

\* numpy.cumsum
CumSum(s) == [i \in 1..Len(s) |-> SumTo(s, i)]

(***************************************************************************)
(* PanelMethodAirfoil.create_panels                                        *)
(***************************************************************************)
\* numpy.isclose defaults: rtol = 1e-5 as 1/RtolInv, atol = 1e-8
RtolInv == 100000
\* atol * Scale * RtolInv
AtolScaled == 1

\* numpy.isclose(a, b): |a - b| <= atol + rtol * |b|
IsClose(a, b) == Abs(a - b) <= (AtolScaled + Abs(b)) \div RtolInv

\* the contour is already closed (line 36)
IsClosed(x, y) == IsClose(x[1], Last(x)) /\ IsClose(y[1], Last(y))

\* lines 36-38: append the first point unless the contour is closed
CloseContour(x, y) ==
    IF IsClosed(x, y) THEN [x |-> x, y |-> y]
    ELSE [x |-> Append(x, x[1]), y |-> Append(y, y[1])]

\* line 40: segment lengths of the closed contour
SegmentDist(x, y) ==
    LET dx == Diff(x)
        dy == Diff(y)
    IN  [i \in 1..(Len(x) - 1) |-> Hypot[dx[i], dy[i]]]

\* line 41: cumulative arc length, starting at 0
ArcLength(x, y) == <<0>> \o CumSum(SegmentDist(x, y))

\* line 42: t_original /= t_original[-1]; a zero total gives 0/0 = nan throughout
TOriginal(x, y) ==
    LET t == ArcLength(x, y)
    IN  [i \in 1..Len(t) |-> FDiv[t[i], Last(t)]]

\* order + 1 points are needed by a cubic interp1d
CubicMinPoints == 4

\* scipy interp1d(t, v, kind='cubic') raises ValueError when t is all-nan, has
\* fewer than 4 entries, or is not strictly increasing
Interp1dRaises(t) ==
    \/ \A i \in 1..Len(t) : ~IsFinite(t[i])
    \/ Len(t) < CubicMinPoints
    \/ \E i \in 1..(Len(t) - 1) : t[i + 1].v <= t[i].v

RECURSIVE LagrangeTerm(_, _, _, _, _)
\* v[k] * prod_{j # k, j <= n} (s - t[j]) / (t[k] - t[j])
LagrangeTerm(t, v, k, s, n) ==
    IF n = 0 THEN v[k]
    ELSE LET rest == LagrangeTerm(t, v, k, s, n - 1)
         IN  IF n = k THEN rest
             ELSE RDiv[rest * (s - t[n].v), t[k].v - t[n].v]

RECURSIVE LagrangeSum(_, _, _, _)
LagrangeSum(t, v, s, k) ==
    IF k = 0 THEN 0
    ELSE LagrangeSum(t, v, s, k - 1) + LagrangeTerm(t, v, k, s, Len(t))

\* the interpolant returned by interp1d, evaluated at s: with four knots the
\* not-a-knot cubic spline is the cubic polynomial through the four points
Interp1dCubic(t, v, s) == LagrangeSum(t, v, s, Len(t))

\* line 47: t_new[k] = 0.5 * (1 - cos(linspace(0, pi, n + 1)[k])), k = 0..n
TNew(n, k) == RDiv[Scale - Cos[RDiv[k * Pi, n]], 2]

\* lines 52-59: the panel between two consecutive resampled points
MakePanel(x1, y1, x2, y2) ==
    LET theta == Atan2[y2 - y1, x2 - x1]
    IN  [x1 |-> x1, y1 |-> y1, x2 |-> x2, y2 |-> y2,
         xc |-> RDiv[x1 + x2, 2], yc |-> RDiv[y1 + y2, 2],
         length |-> Hypot[x2 - x1, y2 - y1],
         theta |-> theta, beta |-> theta + HalfPi]

\* lines 47-60: resample at the cosine-spaced parameters and build the panels
BuildPanels(num_panels, t, x, y) ==
    With([k \in 1..(num_panels + 1) |-> Interp1dCubic(t, x, TNew(num_panels, k - 1))],
         LAMBDA x_p :
    With([k \in 1..(num_panels + 1) |-> Interp1dCubic(t, y, TNew(num_panels, k - 1))],
         LAMBDA y_p :
        [i \in 1..num_panels |-> MakePanel(x_p[i], y_p[i], x_p[i + 1], y_p[i + 1])]))

Raised(e) == [exc |-> e, panels |-> <<>>]

\* create_panels(x, y) on a solver with self.num_panels = num_panels: the
\* exception that escapes it ("none" when it returns) and the list it returns
create_panels(num_panels, x, y) ==
    IF Len(x) = 0 THEN Raised("IndexError")
    ELSE With(CloseContour(x, y), LAMBDA c :
            With(TOriginal(c.x, c.y), LAMBDA t :
                IF Interp1dRaises(t) THEN Raised("ValueError")
                ELSE [exc |-> "none", panels |-> BuildPanels(num_panels, t, c.x, c.y)]))

(***************************************************************************)
(* Contours used as inputs                                                 *)
(***************************************************************************)
\* what read_airfoil_dat returns after a swallowed failure: two empty arrays
EmptyContour == [x |-> <<>>, y |-> <<>>]

\* a two-point "contour"
TwoPointContour == [x |-> <<1000, 0>>, y |-> <<0, 0>>]

\* trailing edge -> upper -> lower, left open
OpenTriangle == [x |-> <<1000, 200, 200>>, y |-> <<0, 300, -300>>]

\* the same triangle with the closing point given
ClosedTriangle == [x |-> <<1000, 200, 200, 1000>>, y |-> <<0, 300, -300, 0>>]

\* a collinear (zero-thickness) loop
FlatContour == [x |-> <<0, 1200, -1200>>, y |-> <<0, 0, 0>>]

\* four coincident points: zero extent
ZeroExtentContour == [x |-> <<500, 500, 500, 500>>, y |-> <<0, 0, 0, 0>>]

\* a triangle whose first point is the first point of the field grid of lines
\* 99-100; resampled with two panels, their common midpoint is a grid corner
GridAlignedTriangle == [x |-> <<-500, 3430, 3430>>, y |-> <<-600, 0, -1200>>]

Contours ==
    {EmptyContour, TwoPointContour, OpenTriangle, ClosedTriangle, FlatContour,
     ZeroExtentContour, GridAlignedTriangle}

(***************************************************************************)
(* PanelMethodAirfoil.solve_flow                                           *)
(***************************************************************************)
\* the self-influence coefficient written at line 74
Half == 500
\* log(0 + 1e-12): the value of the guarded logarithm at a coincident point
LnEps12 == -27631

\* np.log(r_sq + 1e-12) for a squared distance r_sq >= 0: below the
\* resolution of the model the epsilon only matters at r_sq = 0
LogGuard12[r_sq \in Int] == IF r_sq = 0 THEN LnEps12 ELSE Ln[r_sq]

\* line 69: b[i] = -V_inf * (cos(alpha) cos(beta_i) + sin(alpha) sin(beta_i))
RightHandSide(p, alpha, V_inf) ==
    -Mul[V_inf, Mul[Cos[alpha], Cos[p.beta]] + Mul[Sin[alpha], Sin[p.beta]]]

\* lines 76-81: the general log/arctangent formula for the normal velocity
\* induced at p_i's midpoint by unit source strength on p_j
GeneralCoeff(p_i, p_j) ==
    LET X == Mul[p_i.xc - p_j.x1, Cos[p_j.theta]] + Mul[p_i.yc - p_j.y1, Sin[p_j.theta]]
        Y == -Mul[p_i.xc - p_j.x1, Sin[p_j.theta]] + Mul[p_i.yc - p_j.y1, Cos[p_j.theta]]
        r1_sq == Mul[X, X] + Mul[Y, Y]
        r2_sq == Mul[X - p_j.length, X - p_j.length] + Mul[Y, Y]
        phi1 == Atan2[Y, X]
        phi2 == Atan2[Y, X - p_j.length]
        vn == Quo[Mul[X - p_j.length, LogGuard12[r2_sq]] - Mul[X, LogGuard12[r1_sq]]
                    + 2 * Mul[Y, phi2 - phi1], 4 * Pi]
    IN  FDiv[vn, p_j.length]

\* lines 73-81 without the i == j special case
InfluenceEntryNoSpecialCase(panels, i, j) ==
    [val |-> GeneralCoeff(panels[i], panels[j]), general |-> TRUE]

\* lines 73-81: one entry of A, and whether the general formula was evaluated
InfluenceEntry(panels, i, j) ==
    IF i = j THEN [val |-> Fin(Half), general |-> FALSE]
    ELSE [val |-> GeneralCoeff(panels[i], panels[j]), general |-> TRUE]

\* lines 65, 71-81: the assembled matrix
AssembleA(panels) ==
    [i \in 1..Len(panels) |-> [j \in 1..Len(panels) |-> InfluenceEntry(panels, i, j).val]]

\* the (i, j) for which lines 76-81 ran
GeneralPairs(panels) ==
    {ij \in (1..Len(panels)) \X (1..Len(panels)) : InfluenceEntry(panels, ij[1], ij[2]).general}

\* lines 66, 68-69: the right-hand side
AssembleB(panels, alpha, V_inf) ==
    [i \in 1..Len(panels) |-> RightHandSide(panels[i], alpha, V_inf)]

(***************************************************************************)
(* scipy.linalg.solve: LU with partial pivoting                            *)
(***************************************************************************)
RECURSIVE PivotRow(_, _, _, _)
\* the row r in k..n with the largest |M[r][k]| (the first such row)
PivotRow(M, k, r, best) ==
    IF r > Len(M) THEN best
    ELSE PivotRow(M, k, r + 1, IF Abs(M[r][k]) > Abs(M[best][k]) THEN r ELSE best)

SwapRows(M, a, b) ==
    [i \in 1..Len(M) |-> IF i = a THEN M[b] ELSE IF i = b THEN M[a] ELSE M[i]]

\* subtract the multiple of row k that clears column k of every row below it
Eliminate(M, k) ==
    [i \in 1..Len(M) |->
        IF i <= k THEN M[i]
        ELSE LET f == Quo[M[i][k], M[k][k]]
             IN  [j \in 1..Len(M[i]) |-> M[i][j] - Mul[f, M[k][j]]]]

RECURSIVE Forward(_, _)
\* forward elimination of the augmented matrix; singular on an exactly zero pivot
Forward(M, k) ==
    IF k > Len(M) THEN [singular |-> FALSE, M |-> M]
    ELSE With(PivotRow(M, k, k, k), LAMBDA r :
            IF M[r][k] = 0 THEN [singular |-> TRUE, M |-> M]
            ELSE With(Eliminate(SwapRows(M, k, r), k), LAMBDA E : Forward(E, k + 1)))

RECURSIVE BackSum(_, _, _, _)
\* sum over j in (i+1)..n of U[i][j] * x[j], with x given for indices > i
BackSum(U, x, i, j) ==
    IF j > Len(U) THEN 0 ELSE Mul[U[i][j], x[j]] + BackSum(U, x, i, j + 1)

RECURSIVE BackSubst(_, _, _)
BackSubst(U, x, i) ==
    IF i = 0 THEN x
    ELSE With(Quo[U[i][Len(U) + 1] - BackSum(U, x, i, i + 1), U[i][i]], LAMBDA xi :
            BackSubst(U, [x EXCEPT ![i] = xi], i - 1))

\* linalg.solve(A, b): ValueError on a non-finite entry (check_finite),
\* LinAlgError on a singular matrix, else the solution
LinalgSolve(A, b) ==
    LET n == Len(A)
    IN  IF \E i \in 1..n : \E j \in 1..n : ~IsFinite(A[i][j])
        THEN [exc |-> "ValueError", x |-> <<>>]
        ELSE With(Forward([i \in 1..n |-> [j \in 1..(n + 1) |->
                              IF j <= n THEN A[i][j].v ELSE b[i]]], 1), LAMBDA F :
                IF F.singular THEN [exc |-> "LinAlgError", x |-> <<>>]
                ELSE [exc |-> "none", x |-> BackSubst(F.M, [i \in 1..n |-> 0], n)])

\* line 88: the tangential freestream component on a panel
VtInf(p, alpha, V_inf) ==
    Mul[V_inf, Mul[Cos[alpha], -Sin[p.beta]] + Mul[Sin[alpha], Cos[p.beta]]]

\* line 89: V_t[i] = vt_inf + sigma[i] / 2
TangentialVelocity(p, sigma_i, alpha, V_inf) == VtInf(p, alpha, V_inf) + RDiv[sigma_i, 2]

\* line 90: Cp[i] = 1 - (V_t[i] / V_inf) ** 2
PressureCoeff(V_t, V_inf) == With(FDiv[V_t, V_inf], LAMBDA q : OneMinusSquare(q))

\* line 84: the bare except returns None
NoneResult(caught) == [kind |-> "None", caught |-> caught]

\* line 92: the dict solve_flow returns (panels is the caller's list itself)
ResultDict(sigma, Cp, V_t, panels) == [sigma |-> sigma, Cp |-> Cp, panels |-> panels]

\* a solve_flow that filled Cp from the last panel to the first
SurfaceFieldsReversed(panels, sigma, alpha, V_inf) ==
    LET n == Len(panels)
        V_t == [i \in 1..n |-> TangentialVelocity(panels[i], sigma[i], alpha, V_inf)]
        Cp  == [i \in 1..n |-> PressureCoeff(V_t[n + 1 - i], V_inf)]
    IN  [kind |-> "dict", caught |-> "none", dict |-> ResultDict(sigma, Cp, V_t, panels)]

\* lines 86-92: the surface velocities and the returned dict
SurfaceFields(panels, sigma, alpha, V_inf) ==
    LET V_t == [i \in 1..Len(panels) |->
                   TangentialVelocity(panels[i], sigma[i], alpha, V_inf)]
        Cp  == [i \in 1..Len(panels) |-> PressureCoeff(V_t[i], V_inf)]
    IN  [kind |-> "dict", caught |-> "none", dict |-> ResultDict(sigma, Cp, V_t, panels)]

\* lines 83-84: the solve inside the try, and what follows either way
SolveAndEvaluate(panels, A, b, alpha, V_inf) ==
    With(LinalgSolve(A, b), LAMBDA s :
        IF s.exc # "none" THEN NoneResult(s.exc)
        ELSE SurfaceFields(panels, s.x, alpha, V_inf))

\* solve_flow(panels, alpha_deg, V_inf): what it returns, with the exception its
\* try/except caught
solve_flow(panels, alpha_deg, V_inf) ==
    With(AssembleA(panels), LAMBDA A :
        With(AssembleB(panels, Radians[alpha_deg], V_inf), LAMBDA b :
            SolveAndEvaluate(panels, A, b, Radians[alpha_deg], V_inf)))

(***************************************************************************)
(* PanelMethodAirfoil.compute_flow_field                                   *)
(***************************************************************************)
\* the hard-coded sampling window of lines 99-100
GridXMin == -500
GridXMax == 1500
GridYMin == -600
GridYMax == 600
\* log(0 + 1e-10)
LnEps10 == -23026

\* np.linspace(a, b, n)[k], k = 0..n-1
Linspace(a, b, n, k) == IF n = 1 THEN a ELSE a + RDiv[k * (b - a), n - 1]

\* np.log(r_sq + 1e-10) for a squared distance r_sq >= 0
LogGuard10[r_sq \in Int] == IF r_sq = 0 THEN LnEps10 ELSE Ln[r_sq]

\* np.log(r2_sq / r1_sq) with no guard: 0/0 is nan, x/0 is inf, log(0) is -inf
LogRatioUnguarded(r2_sq, r1_sq) ==
    IF r1_sq > 0 /\ r2_sq > 0 THEN Fin(Ln[r2_sq] - Ln[r1_sq])
    ELSE IF r1_sq = 0 /\ r2_sq = 0 THEN NaN
    ELSE Inf(IF r1_sq = 0 THEN 1 ELSE -1)

\* line 112: np.log((r2_sq + 1e-10)/(r1_sq + 1e-10)). Each sum is positive
\* exactly when its r_sq is above -1e-10, that is, not negative; the log of
\* the quotient is then the difference of the two logs
LogRatio(r2_sq, r1_sq) ==
    IF r1_sq >= 0 /\ r2_sq >= 0 THEN Fin(LogGuard10[r2_sq] - LogGuard10[r1_sq])
    ELSE NaN

\* lines 107-116: the velocity panel p with strength sigma_k induces at (X, Y),
\* and whether it is finite
PanelInduced(p, sigma_k, X, Y) ==
    LET dx == X - p.x1
        dy == Y - p.y1
        X_loc == Mul[dx, Cos[p.theta]] + Mul[dy, Sin[p.theta]]
        Y_loc == -Mul[dx, Sin[p.theta]] + Mul[dy, Cos[p.theta]]
        r1_sq == Mul[X_loc, X_loc] + Mul[Y_loc, Y_loc]
        r2_sq == Mul[X_loc - p.length, X_loc - p.length] + Mul[Y_loc, Y_loc]
        theta1 == Atan2[Y_loc, X_loc]
        theta2 == Atan2[Y_loc, X_loc - p.length]
        I == theta2 - theta1
    IN  With(LogRatio(r2_sq, r1_sq), LAMBDA lg :
            IF ~IsFinite(lg) THEN [u |-> 0, v |-> 0, finite |-> FALSE]
            ELSE With(RDiv[lg.v, 2], LAMBDA J :
                [u |-> Quo[Mul[Mul[J, Cos[p.theta]] - Mul[I, Sin[p.theta]], sigma_k], TwoPi],
                 v |-> Quo[Mul[Mul[J, Sin[p.theta]] + Mul[I, Cos[p.theta]], sigma_k], TwoPi],
                 finite |-> TRUE]))

RECURSIVE SumInduced(_, _, _, _, _)
\* lines 106, 117: the contributions of panels 1..k
SumInduced(panels, sigma, X, Y, k) ==
    IF k = 0 THEN [u |-> 0, v |-> 0, finite |-> TRUE]
    ELSE With(SumInduced(panels, sigma, X, Y, k - 1), LAMBDA rest :
         With(PanelInduced(panels[k], sigma[k], X, Y), LAMBDA loc :
            [u |-> rest.u + loc.u, v |-> rest.v + loc.v,
             finite |-> rest.finite /\ loc.finite]))

\* lines 103-104: the freestream velocity the field starts from
FieldFreestream(alpha) == [u |-> Cos[alpha], v |-> Sin[alpha]]

\* lines 103-120 at one grid point; finite says whether U, V, V_mag and Cp are
\* finite floats there (a nan or inf of one panel spreads to all four)
FieldAt(result, alpha, X, Y) ==
    With(SumInduced(result.panels, result.sigma, X, Y, Len(result.panels)), LAMBDA ind :
        LET U == FieldFreestream(alpha).u + ind.u
            V == FieldFreestream(alpha).v + ind.v
            V_mag == Sqrt[Mul[U, U] + Mul[V, V]]
        IN  [X |-> X, Y |-> Y, U |-> U, V |-> V, V_mag |-> V_mag,
             Cp |-> Scale - Mul[V_mag, V_mag], finite |-> ind.finite])

\* compute_flow_field(result, alpha_deg, res): the sample at every (row, column)
\* of the meshgrid
compute_flow_field(result, alpha_deg, res) ==
    LET alpha == Radians[alpha_deg]
    IN  [r \in 1..res |-> [c \in 1..res |->
            FieldAt(result, alpha,
                    Linspace(GridXMin, GridXMax, res, c - 1),
                    Linspace(GridYMin, GridYMax, res, r - 1))]]

(***************************************************************************)
(* PanelMethodAirfoil.read_airfoil_dat                                     *)
(***************************************************************************)
\* a line of a .dat file: blank, containing a letter, or tokens
BlankLine == [kind |-> "blank", tokens |-> <<>>]

TextLine == [kind |-> "text", tokens |-> <<>>]

\* a line of tokens without letters; a token float() rejects is "bad"
PointLine(x, y) == [kind |-> "tokens", tokens |-> <<Fin(x), Fin(y)>>]

OneTokenLine == [kind |-> "tokens", tokens |-> <<Fin(0)>>]

BadTokenLine == [kind |-> "tokens", tokens |-> <<[kind |-> "bad", v |-> 0], Fin(0)>>]

RECURSIVE ParseLines(_, _)
\* lines 22-31: the points of the first n lines
ParseLines(lines, n) ==
    IF n = 0 THEN EmptyContour
    ELSE With(ParseLines(lines, n - 1), LAMBDA acc :
            LET l == lines[n]
            IN  IF l.kind # "tokens" THEN acc
                ELSE IF Len(l.tokens) < 2 THEN acc
                ELSE IF l.tokens[1].kind = "bad" THEN acc
                ELSE IF l.tokens[2].kind = "bad"
                     THEN [x |-> Append(acc.x, l.tokens[1].v), y |-> acc.y]
                ELSE [x |-> Append(acc.x, l.tokens[1].v),
                      y |-> Append(acc.y, l.tokens[2].v)])

\* read_airfoil_dat(filename): the arrays it returns and the exception its
\* try/except caught; a failure of open() is swallowed into two empty arrays
read_airfoil_dat(file) ==
    IF ~file.readable THEN [caught |-> "OSError", arrays |-> EmptyContour]
    ELSE [caught |-> "none", arrays |-> ParseLines(file.lines, Len(file.lines))]

\* the .dat file of a contour: a name line, then one line per point
FileOf(c) ==
    [readable |-> TRUE,
     lines |-> <<TextLine>> \o [i \in 1..Len(c.x) |-> PointLine(c.x[i], c.y[i])]]

\* a file that exists and cannot be opened for reading
UnreadableFile == [readable |-> FALSE, lines |-> <<>>]

\* a triangle file with a blank line, a one-token line and an unparsable line
NoisyTriangleFile ==
    [readable |-> TRUE,
     lines |-> <<TextLine, PointLine(1000, 0), BlankLine, PointLine(200, 300),
                 OneTokenLine, BadTokenLine, PointLine(200, -300)>>]

Files == {FileOf(c) : c \in Contours \ {EmptyContour}} \cup {UnreadableFile, NoisyTriangleFile}

(***************************************************************************)
(* A client of one PanelMethodAirfoil instance: it reads a .dat file,       *)
(* builds the panels and then issues solves and field queries in any order *)
(***************************************************************************)
\* the largest num_panels a solver is constructed with
MaxPanels == 3
\* the largest grid resolution a field query asks for
MaxRes == 2

\* angles of attack (degrees) and freestream speeds the client passes
Alphas == {-4, 4}

Speeds == {0, Scale, 2 * Scale}

\* the grid resolutions the client asks for
Resolutions == {MaxRes - 1, MaxRes}

VARIABLES
    num_panels,     \* self.num_panels of the solver
    contour,        \* the (x, y) arrays the client holds
    panels,         \* the panel list the client holds
    panelsAtBuild,  \* that list as create_panels returned it
    result,         \* what the last solve_flow returned
    lastA,          \* the matrix A the last solve_flow assembled
    evaluated,      \* the (i, j) for which it evaluated the general formula
    field,          \* what compute_flow_field returned for the current result
    call,           \* the last call: its outcome as the caller sees it
    solvedFor,      \* the alpha_deg and V_inf the last solve_flow was called with,
                    \* and whether other solves ran before it
    fieldFor,       \* the arguments of the last compute_flow_field and the solve
                    \* its result came from
    files,          \* sweep: the .dat file of each airfoil
    loaded_geometries, \* sweep: AirfoilComparator.loaded_geometries
    pc,             \* sweep: position of the script
    idx,            \* sweep: loop indices (airfoil, alpha, plot)
    log,            \* sweep: what each loop iteration did
    builds,         \* sweep: create_panels calls per airfoil
    data_dir,       \* xfoil: the airfoils whose source .dat exists
    base_dir,       \* xfoil: the temporary files of the working directory
    children,       \* xfoil: the xfoil processes run_xfoil_command started
    xpc,            \* xfoil: position of run_analysis (airfoil, step)
    results         \* xfoil: AirfoilCFDAnalyzer.results

apiVars ==
    <<num_panels, contour, panels, panelsAtBuild, result, lastA, evaluated, field, call,
      solvedFor, fieldFor>>

sweepVars == <<files, loaded_geometries, pc, idx, log, builds>>

xfoilVars == <<data_dir, base_dir, children, xpc, results>>

vars == <<num_panels, contour, panels, panelsAtBuild, result, lastA, evaluated, field, call,
          solvedFor, fieldFor, files, loaded_geometries, pc, idx, log, builds,
          data_dir, base_dir, children, xpc, results>>

\* a variable not yet assigned: a record for the dict- and tuple-valued ones,
\* the empty sequence for the list-valued ones (no call returns an empty list)
Unset == [kind |-> "unset"]

NoList == <<>>

\* the outcome of a call: the exception raised inside it, the one the caller
\* receives, and the kind of value returned
Outcome(op, internal, escaped, ret) ==
    [op |-> op, internal |-> internal, escaped |-> escaped, ret |-> ret]

SweepIdle ==
    /\ files = <<>>
    /\ loaded_geometries = <<>>
    /\ pc = "idle"
    /\ idx = [airfoil |-> 0, alpha |-> 0, plot |-> 0]
    /\ log = <<>>
    /\ builds = <<>>

\* the airfoils run_analysis is asked to analyse
NumXfoilAirfoils == 2

XfoilAirfoils == 1..NumXfoilAirfoils

\* the temporary files of an airfoil in base_dir: <airfoil>.dat,
\* <airfoil>_results.polar and <airfoil>_results.dump
TempExts == {"dat", "polar", "dump"}

TempFiles == XfoilAirfoils \X TempExts

\* the analyzer is not running: no temporary file, no child process
XfoilIdle ==
    /\ data_dir = {}
    /\ base_dir = [f \in TempFiles |-> "absent"]
    /\ children = [a \in XfoilAirfoils |-> "none"]
    /\ xpc = [airfoil |-> 0, at |-> "idle"]
    /\ results = [a \in XfoilAirfoils |-> "unset"]

\* PanelMethodAirfoil(num_panels = n)
Init ==
    /\ num_panels \in 1..MaxPanels
    /\ contour = Unset
    /\ panels = NoList
    /\ panelsAtBuild = NoList
    /\ result = Unset
    /\ lastA = <<>>
    /\ evaluated = {}
    /\ field = NoList
    /\ call = Outcome("__init__", "none", "none", "solver")
    /\ solvedFor = Unset
    /\ fieldFor = Unset
    /\ SweepIdle
    /\ XfoilIdle

\* x, y = solver.read_airfoil_dat(path): the client starts on a new geometry
ReadAirfoilDat(f) ==
    \E r \in {read_airfoil_dat(f)} :
        /\ contour' = r.arrays
        /\ panels' = NoList
        /\ panelsAtBuild' = NoList
        /\ result' = Unset
        /\ field' = NoList
        /\ lastA' = <<>>
        /\ evaluated' = {}
        /\ call' = Outcome("read_airfoil_dat", r.caught, "none", "arrays")
        /\ solvedFor' = Unset
        /\ fieldFor' = Unset
        /\ UNCHANGED <<num_panels, xfoilVars, files, loaded_geometries, pc, idx, log, builds>>

\* panels = solver.create_panels(x, y)
CreatePanels ==
    /\ contour # Unset
    /\ panels = NoList
    /\ \E r \in {create_panels(num_panels, contour.x, contour.y)} :
           /\ panels' = IF r.exc = "none" THEN r.panels ELSE panels
           /\ panelsAtBuild' = IF r.exc = "none" THEN r.panels ELSE panelsAtBuild
           /\ call' = Outcome("create_panels", r.exc, r.exc,
                              IF r.exc = "none" THEN "list" ELSE "raise")
    /\ UNCHANGED <<num_panels, contour, result, lastA, evaluated, field, solvedFor, fieldFor,
                   xfoilVars, files, loaded_geometries, pc, idx, log, builds>>

\* a solve_flow that stored a normalised beta back into the caller's panel
\* dicts; the code has no such store
PanelsWithWrappedBeta(ps, alpha_deg, V_inf) ==
    [i \in 1..Len(ps) |-> [ps[i] EXCEPT !.beta = WrapAngle[@]]]

\* a solve_flow that turned the panel normals into the freestream frame in
\* place, leaving state behind for the next solve; the code has no such store
PanelsRotatedByAlpha(ps, alpha_deg, V_inf) ==
    [i \in 1..Len(ps) |-> [ps[i] EXCEPT !.beta = @ - Radians[alpha_deg]]]

\* the caller's panel list after solve_flow returned: lines 62-92 read the
\* panel dicts and store to none of them
PanelsAfterSolveFlow(ps, alpha_deg, V_inf) == ps

\* the caller's panel list after compute_flow_field returned (lines 94-121)
PanelsAfterFlowField(ps, alpha_deg, res) == ps

\* whether a solve with another angle or speed ran on these panels before the
\* solve now called
EarlierSolve(alpha_deg, V_inf) ==
    /\ solvedFor # Unset
    /\ \/ solvedFor.earlier
       \/ solvedFor.alpha_deg # alpha_deg
       \/ solvedFor.V_inf # V_inf

\* res = solver.solve_flow(panels, alpha_deg, V_inf): the body of solve_flow,
\* with the matrix it assembled kept in lastA
SolveFlow(alpha_deg, V_inf) ==
    /\ panels # NoList
    /\ \E A \in {AssembleA(panels)} :
       \E r \in {SolveAndEvaluate(panels, A, AssembleB(panels, Radians[alpha_deg], V_inf),
                                  Radians[alpha_deg], V_inf)} :
           /\ result' = r
           /\ call' = Outcome("solve_flow", r.caught, "none", r.kind)
           /\ lastA' = A
    /\ evaluated' = GeneralPairs(panels)
    /\ panels' = PanelsAfterSolveFlow(panels, alpha_deg, V_inf)
    /\ solvedFor' = [alpha_deg |-> alpha_deg, V_inf |-> V_inf,
                     earlier |-> EarlierSolve(alpha_deg, V_inf)]
    /\ field' = NoList
    /\ fieldFor' = Unset
    /\ UNCHANGED <<num_panels, contour, panelsAtBuild,
                   xfoilVars, files, loaded_geometries, pc, idx, log, builds>>

\* ff = solver.compute_flow_field(res, alpha_deg, res): the callers guard it
\* with "if res:"
ComputeFlowField(alpha_deg, res) ==
    /\ result.kind = "dict"
    /\ field' = compute_flow_field(result.dict, alpha_deg, res)
    /\ fieldFor' = [alpha_deg |-> alpha_deg, res |-> res, solved |-> solvedFor]
    /\ call' = Outcome("compute_flow_field", "none", "none", "dict")
    /\ panels' = PanelsAfterFlowField(panels, alpha_deg, res)
    /\ UNCHANGED <<num_panels, contour, panelsAtBuild, result, lastA, evaluated, solvedFor,
                   xfoilVars, files, loaded_geometries, pc, idx, log, builds>>

Next ==
    \/ \E f \in Files : ReadAirfoilDat(f)
    \/ CreatePanels
    \/ \E a \in Alphas : \E v \in Speeds : SolveFlow(a, v)
    \/ \E a \in Alphas : \E r \in Resolutions : ComputeFlowField(a, r)

Spec == Init /\ [][Next]_vars

(***************************************************************************)
(* The script: AirfoilComparator.__init__ and the __main__ sweep, which     *)
(* for each alpha runs plot_overlapped_cp and three plot_field_grid calls  *)
(***************************************************************************)
\* how many of the airfoils of line 295 the sweep covers
NumAirfoils == 2
\* how many of the comparison_alphas of line 301 the sweep covers
NumAlphas == 2
\* num_panels of the comparator's solver (160 at line 160)
ComparatorNumPanels == 2
\* res passed by plot_field_grid (60 at line 263)
FieldGridRes == 2

\* line 301
comparison_alphas == <<-4, -2, 0, 2, 4, 6, 8, 10, 12>>

\* lines 317-319
FieldPlotTypes == <<"streamlines", "velocity", "pressure">>

\* V_inf when the callers leave it out (line 62)
DefaultVInf == Scale

Airfoils == 1..NumAirfoils

\* what may lie at an airfoil's path in data_dir
MissingFile == [exists |-> FALSE, file |-> UnreadableFile]

OnDisk(f) == [exists |-> TRUE, file |-> f]

SweepFiles ==
    {MissingFile, OnDisk(UnreadableFile), OnDisk(FileOf(OpenTriangle)),
     OnDisk(FileOf(TwoPointContour)), OnDisk(FileOf(FlatContour))}

\* the state of the script before AirfoilComparator.__init__ loads the data
SweepInit ==
    /\ num_panels = ComparatorNumPanels
    /\ contour = Unset
    /\ panels = NoList
    /\ panelsAtBuild = NoList
    /\ result = Unset
    /\ lastA = <<>>
    /\ evaluated = {}
    /\ field = NoList
    /\ call = Outcome("__main__", "none", "none", "running")
    /\ solvedFor = Unset
    /\ fieldFor = Unset
    /\ files \in [Airfoils -> SweepFiles]
    /\ loaded_geometries = <<>>
    /\ pc = "load"
    /\ idx = [airfoil |-> 1, alpha |-> 1, plot |-> 0]
    /\ log = <<>>
    /\ builds = [a \in Airfoils |-> 0]
    /\ XfoilIdle

\* the loaded airfoils from position a on, in dict order
LoadedFrom(a) == {g \in DOMAIN loaded_geometries : g >= a}

Min(S) == CHOOSE m \in S : \A o \in S : m <= o

\* one record of the log
Entry(plot, a, alpha, outcome, sampled) ==
    [plot |-> plot, airfoil |-> a, alpha |-> alpha, outcome |-> outcome,
     sampled |-> sampled, reported |-> FALSE]

\* lines 165-168: one airfoil of the loading loop
LoadData ==
    /\ pc = "load"
    /\ LET a == idx.airfoil
       IN  /\ loaded_geometries' =
                 IF files[a].exists
                 THEN (a :> read_airfoil_dat(files[a].file).arrays) @@ loaded_geometries
                 ELSE loaded_geometries
           /\ IF a < NumAirfoils
              THEN /\ idx' = [idx EXCEPT !.airfoil = a + 1]
                   /\ pc' = pc
              ELSE /\ idx' = [airfoil |-> 1, alpha |-> 1, plot |-> 0]
                   /\ pc' = "cp"
    /\ UNCHANGED <<apiVars, xfoilVars, files, log, builds>>

\* lines 233-238: one geometry of plot_overlapped_cp; an exception of
\* create_panels is caught nowhere and ends the script
OverlappedCpIteration ==
    /\ pc = "cp"
    /\ LoadedFrom(idx.airfoil) # {}
    /\ \E a \in {Min(LoadedFrom(idx.airfoil))} :
       \E r \in {create_panels(num_panels, loaded_geometries[a].x, loaded_geometries[a].y)} :
          /\ builds' = [builds EXCEPT ![a] = @ + 1]
          /\ IF r.exc # "none"
             THEN /\ pc' = "aborted"
                  /\ call' = Outcome("__main__", r.exc, r.exc, "raise")
                  /\ log' = log
                  /\ idx' = idx
             ELSE \E res \in {solve_flow(r.panels, comparison_alphas[idx.alpha], DefaultVInf)} :
                  /\ log' = Append(log, Entry("cp", a, idx.alpha,
                                 IF res.kind = "dict" THEN "plotted" ELSE "skipped", FALSE))
                  /\ idx' = [idx EXCEPT !.airfoil = a + 1]
                  /\ pc' = pc
                  /\ call' = call
    /\ UNCHANGED <<num_panels, contour, panels, panelsAtBuild, result, lastA, evaluated,
                   field, solvedFor, fieldFor, xfoilVars, files, loaded_geometries>>

\* lines 240-245: the figure is saved and the first field grid begins
OverlappedCpFinish ==
    /\ pc = "cp"
    /\ LoadedFrom(idx.airfoil) = {}
    /\ pc' = "field"
    /\ idx' = [idx EXCEPT !.airfoil = 1, !.plot = 1]
    /\ UNCHANGED <<apiVars, xfoilVars, files, loaded_geometries, log, builds>>

\* lines 255-281: one airfoil of plot_field_grid
FieldGridIteration ==
    /\ pc = "field"
    /\ idx.airfoil <= NumAirfoils
    /\ \E a \in {idx.airfoil} :
       IF a \notin DOMAIN loaded_geometries
       THEN /\ idx' = [idx EXCEPT !.airfoil = a + 1]
            /\ UNCHANGED <<pc, call, log, builds>>
       ELSE \E r \in {create_panels(num_panels, loaded_geometries[a].x, loaded_geometries[a].y)} :
            /\ builds' = [builds EXCEPT ![a] = @ + 1]
            /\ IF r.exc # "none"
               THEN /\ pc' = "aborted"
                    /\ call' = Outcome("__main__", r.exc, r.exc, "raise")
                    /\ log' = log
                    /\ idx' = idx
               ELSE \E res \in {solve_flow(r.panels, comparison_alphas[idx.alpha], DefaultVInf)} :
                    /\ log' = Append(log, Entry(FieldPlotTypes[idx.plot], a, idx.alpha,
                                   IF res.kind = "dict" THEN "plotted" ELSE "skipped",
                                   res.kind = "dict" /\
                                   compute_flow_field(res.dict, comparison_alphas[idx.alpha],
                                                      FieldGridRes) # NoList))
                    /\ idx' = [idx EXCEPT !.airfoil = a + 1]
                    /\ pc' = pc
                    /\ call' = call
    /\ UNCHANGED <<num_panels, contour, panels, panelsAtBuild, result, lastA, evaluated,
                   field, solvedFor, fieldFor, xfoilVars, files, loaded_geometries>>

\* lines 283-287 and 314-319: the figure is saved; the next plot type, the
\* next alpha, or the end of the script follows
FieldGridFinish ==
    /\ pc = "field"
    /\ idx.airfoil > NumAirfoils
    /\ IF idx.plot < Len(FieldPlotTypes)
       THEN /\ idx' = [idx EXCEPT !.airfoil = 1, !.plot = @ + 1]
            /\ pc' = pc
       ELSE IF idx.alpha < NumAlphas
       THEN /\ idx' = [airfoil |-> 1, alpha |-> idx.alpha + 1, plot |-> 0]
            /\ pc' = "cp"
       ELSE /\ idx' = idx
            /\ pc' = "done"
    /\ UNCHANGED <<apiVars, xfoilVars, files, loaded_geometries, log, builds>>

SweepNext ==
    \/ LoadData
    \/ OverlappedCpIteration
    \/ OverlappedCpFinish
    \/ FieldGridIteration
    \/ FieldGridFinish

SweepSpec == SweepInit /\ [][SweepNext]_vars

(***************************************************************************)
(* create_panels on a family of raw contours: open, closed exactly, and     *)
(* closed only within the tolerance of np.isclose                         *)
(***************************************************************************)
\* the largest apex height, in steps of ApexStep
MaxApexSteps == 3

ApexStep == 100

\* a chord position at which rtol * |x| reaches one unit of the fixed point
FarOffset == 99000

\* the raw contour: trailing edge at (ox + 1, 0), apexes at (ox + a, h) and
\* (ox + a, -h), then nothing, the first point again, or a point one unit off
TriangleContour(ox, a, h, closing) ==
    LET x3 == <<ox + Scale, ox + a, ox + a>>
        y3 == <<0, h, -h>>
    IN  CASE closing = "open"  -> [x |-> x3, y |-> y3]
          [] closing = "exact" -> [x |-> Append(x3, ox + Scale), y |-> Append(y3, 0)]
          [] closing = "near"  -> [x |-> Append(x3, ox + Scale + 1), y |-> Append(y3, 0)]

\* the contours whose closed form has the four knots the interpolant models
ResampleContours ==
    {TriangleContour(ox, a, k * ApexStep, closing) :
        ox \in {0, FarOffset}, a \in {200, 500}, k \in 1..MaxApexSteps,
        closing \in {"open", "exact"}}
    \cup {TriangleContour(FarOffset, a, k * ApexStep, "near") :
            a \in {200, 500}, k \in 1..MaxApexSteps}

ResampleInit ==
    /\ num_panels \in 1..MaxPanels
    /\ contour \in ResampleContours
    /\ panels = NoList
    /\ panelsAtBuild = NoList
    /\ result = Unset
    /\ lastA = <<>>
    /\ evaluated = {}
    /\ field = NoList
    /\ call = Outcome("__init__", "none", "none", "solver")
    /\ solvedFor = Unset
    /\ fieldFor = Unset
    /\ SweepIdle
    /\ XfoilIdle

ResampleNext == CreatePanels

ResampleSpec == ResampleInit /\ [][ResampleNext]_vars

(***************************************************************************)
(* solve_flow on the unit circle: a client that builds the panel dicts of   *)
(* a regular polygon itself and queries the solver                         *)
(***************************************************************************)
\* the polygons have 4, 8, ..., 4 * MaxCircleQuads panels
MaxCircleQuads == 2

CircleSizes == {4 * q : q \in 1..MaxCircleQuads}

\* vertex k of the n-gon inscribed in the unit circle, walked counter-clockwise
\* (dir = 1) or clockwise (dir = -1)
CirclePoint(n, k, dir) ==
    With(dir * RDiv[TwoPi * k, n], LAMBDA th : [x |-> Cos[th], y |-> Sin[th]])

\* the panel dicts of lines 55-59 for the n-gon
CirclePanels(n, dir) ==
    [k \in 1..n |->
        MakePanel(CirclePoint(n, k - 1, dir).x, CirclePoint(n, k - 1, dir).y,
                  CirclePoint(n, k, dir).x, CirclePoint(n, k, dir).y)]

\* the angles of attack this client solves at: zero and one other
CylinderAlphas == {0, 4}

CylinderInit ==
    /\ \E n \in CircleSizes : \E dir \in {1, -1} :
           /\ num_panels = n
           /\ panels = CirclePanels(n, dir)
           /\ panelsAtBuild = panels
    /\ contour = Unset
    /\ result = Unset
    /\ lastA = <<>>
    /\ evaluated = {}
    /\ field = NoList
    /\ call = Outcome("__init__", "none", "none", "solver")
    /\ solvedFor = Unset
    /\ fieldFor = Unset
    /\ SweepIdle
    /\ XfoilIdle

CylinderNext ==
    \/ \E a \in CylinderAlphas : \E v \in Speeds : SolveFlow(a, v)
    \/ \E a \in CylinderAlphas : \E r \in Resolutions : ComputeFlowField(a, r)

CylinderSpec == CylinderInit /\ [][CylinderNext]_vars

(***************************************************************************)
(* 3_xfoil_analyzer.py: run_analysis and the xfoil processes it starts      *)
(***************************************************************************)
\* the loop of line 258 at airfoil a, or past its last airfoil
LoopAt(a) ==
    IF a > NumXfoilAirfoils THEN [airfoil |-> a, at |-> "done"]
    ELSE [airfoil |-> a, at |-> "prepare"]

\* lines 40-61: io is what the file system does to the copy: "ok", a failure
\* of the read of line 49-50 (before the temporary file is opened) or a
\* failure of the write of lines 53-56 (after open(temp_file, 'w') created it)
prepare_airfoil_file(dir, sources, a, io) ==
    IF a \notin sources THEN [ret |-> FALSE, base_dir |-> dir]
    ELSE IF io = "read_error" THEN [ret |-> FALSE, base_dir |-> dir]
    ELSE IF io = "write_error"
        THEN [ret |-> FALSE, base_dir |-> [dir EXCEPT ![<<a, "dat">>] = "empty"]]
    ELSE [ret |-> TRUE, base_dir |-> [dir EXCEPT ![<<a, "dat">>] = "data"]]

\* lines 187-222: the entry of self.results for the polar file found
parse_results(polar) == IF polar = "data" THEN "df" ELSE "empty"

\* lines 269-272: the three temporary files of airfoil a are removed
RemoveTemp(dir, a) ==
    [f \in TempFiles |-> IF f[1] = a THEN "absent" ELSE dir[f]]

\* the PACC commands of the script: xfoil opens the polar and the dump file,
\* then writes a row for every point that converges
Accumulate(dir, a) ==
    [dir EXCEPT ![<<a, "polar">>] = IF @ = "absent" THEN "empty" ELSE "data",
                ![<<a, "dump">>] = IF @ = "absent" THEN "empty" ELSE "data"]

\* the analyzer before run_analysis: any set of sources, a clean base_dir
XfoilInit ==
    /\ num_panels = MaxPanels
    /\ contour = Unset
    /\ panels = NoList
    /\ panelsAtBuild = NoList
    /\ result = Unset
    /\ lastA = <<>>
    /\ evaluated = {}
    /\ field = NoList
    /\ call = Outcome("__main__", "none", "none", "running")
    /\ solvedFor = Unset
    /\ fieldFor = Unset
    /\ SweepIdle
    /\ data_dir \in SUBSET XfoilAirfoils
    /\ base_dir = [f \in TempFiles |-> "absent"]
    /\ children = [a \in XfoilAirfoils |-> "none"]
    /\ xpc = [airfoil |-> 1, at |-> "check"]
    /\ results = [a \in XfoilAirfoils |-> "unset"]

\* line 252: run_analysis returns at once when xfoil is not on the PATH
CheckXfoilAvailable ==
    /\ xpc.at = "check"
    /\ \E onPath \in BOOLEAN :
           xpc' = IF onPath THEN LoopAt(1) ELSE [airfoil |-> 1, at |-> "returned"]
    /\ UNCHANGED <<apiVars, sweepVars, data_dir, base_dir, children, results>>

\* line 260: prepare_airfoil_file; False skips the rest of the iteration
PrepareAirfoilFile ==
    /\ xpc.at = "prepare"
    /\ \E io \in {"ok", "read_error", "write_error"} :
       \E r \in {prepare_airfoil_file(base_dir, data_dir, xpc.airfoil, io)} :
           /\ base_dir' = r.base_dir
           /\ xpc' = IF r.ret THEN [xpc EXCEPT !.at = "popen"]
                     ELSE LoopAt(xpc.airfoil + 1)
    /\ UNCHANGED <<apiVars, sweepVars, data_dir, children, results>>

\* lines 173-181: subprocess.Popen starts xfoil, or raises and
\* run_xfoil_command returns False
Popen ==
    /\ xpc.at = "popen"
    /\ \E started \in BOOLEAN :
           IF started
           THEN /\ children' = [children EXCEPT ![xpc.airfoil] = "running"]
                /\ xpc' = [xpc EXCEPT !.at = "communicate"]
           ELSE /\ children' = children
                /\ xpc' = [xpc EXCEPT !.at = "cleanup"]
    /\ UNCHANGED <<apiVars, sweepVars, data_dir, base_dir, results>>

\* lines 182-183: communicate returns once the child has exited, and
\* run_xfoil_command returns True
CommunicateReturns ==
    /\ xpc.at = "communicate"
    /\ children[xpc.airfoil] = "exited"
    /\ xpc' = [xpc EXCEPT !.at = "parse"]
    /\ UNCHANGED <<apiVars, sweepVars, data_dir, base_dir, children, results>>

\* lines 182, 184-185: the child is still running after 45 seconds,
\* communicate raises TimeoutExpired and run_xfoil_command returns False;
\* nothing kills or waits for the child
CommunicateTimeout ==
    /\ xpc.at = "communicate"
    /\ children[xpc.airfoil] = "running"
    /\ xpc' = [xpc EXCEPT !.at = "cleanup"]
    /\ UNCHANGED <<apiVars, sweepVars, data_dir, base_dir, children, results>>

\* lines 266-267: parse_results on the polar file
ParseResults ==
    /\ xpc.at = "parse"
    /\ results' = [results EXCEPT
                      ![xpc.airfoil] = parse_results(base_dir[<<xpc.airfoil, "polar">>])]
    /\ xpc' = [xpc EXCEPT !.at = "cleanup"]
    /\ UNCHANGED <<apiVars, sweepVars, data_dir, base_dir, children>>

\* lines 269-272, then the next airfoil of the loop
Cleanup ==
    /\ xpc.at = "cleanup"
    /\ base_dir' = RemoveTemp(base_dir, xpc.airfoil)
    /\ xpc' = LoopAt(xpc.airfoil + 1)
    /\ UNCHANGED <<apiVars, sweepVars, data_dir, children, results>>

\* a running xfoil executes the PACC part of its script
XfoilAccumulates(a) ==
    /\ children[a] = "running"
    /\ Accumulate(base_dir, a) # base_dir
    /\ base_dir' = Accumulate(base_dir, a)
    /\ UNCHANGED <<apiVars, sweepVars, data_dir, children, xpc, results>>

\* a running xfoil reaches QUIT, or dies
XfoilExits(a) ==
    /\ children[a] = "running"
    /\ children' = [children EXCEPT ![a] = "exited"]
    /\ UNCHANGED <<apiVars, sweepVars, data_dir, base_dir, xpc, results>>

XfoilNext ==
    \/ CheckXfoilAvailable
    \/ PrepareAirfoilFile
    \/ Popen
    \/ CommunicateReturns
    \/ CommunicateTimeout
    \/ ParseResults
    \/ Cleanup
    \/ \E a \in XfoilAirfoils : XfoilAccumulates(a)
    \/ \E a \in XfoilAirfoils : XfoilExits(a)

XfoilSpec == XfoilInit /\ [][XfoilNext]_vars

(***************************************************************************)
(* Properties                                                              *)
(***************************************************************************)
\* C1: every diagonal entry of the influence matrix solve_flow assembles is
\* exactly 0.5, for every geometry, and the general induced-velocity formula
\* is evaluated for no pair i = j.
C1_DiagonalIsHalf ==
    \A i \in 1..Len(lastA) :
        /\ lastA[i][i].kind = "fin"
        /\ 2 * lastA[i][i].v = Scale
        /\ <<i, i>> \notin evaluated

\* a solve over several panels has returned a result, the general formula
\* having been evaluated for the off-diagonal pairs
C1_Witness ==
    /\ call.op = "solve_flow"
    /\ result.kind = "dict"
    /\ Len(lastA) >= 2
    /\ \E i \in 1..Len(lastA) : \E j \in 1..Len(lastA) : <<i, j>> \in evaluated

\* C2: create_panels on a contour with too few points (fewer than three) or
\* zero extent (all points coincide) fails with GeometryError.
C2_BadContourRaisesGeometryError ==
    (/\ call.op = "create_panels"
     /\ \/ Len(contour.x) < 3
        \/ \A k \in 1..Len(contour.x) :
               contour.x[k] = contour.x[1] /\ contour.y[k] = contour.y[1])
        => call.escaped = "GeometryError"

\* C3: create_panels returns no list that contains a panel of length below
\* epsilon (here: of length zero); it fails with DegeneratePanelError instead.
C3_NoDegeneratePanelReturned ==
    \A i \in 1..Len(panels) : panels[i].length > 0

\* C4: a solve whose matrix the linear solver rejects fails with
\* SingularSystemError, and a returned result holds no NaN Cp.
C4_SingularRaisesNoNaN ==
    /\ (call.op = "solve_flow" /\ call.internal # "none")
           => call.escaped = "SingularSystemError"
    /\ result.kind = "dict"
           => \A i \in 1..Len(result.dict.Cp) : result.dict.Cp[i].kind # "nan"

\* C5: no failure of one (geometry, alpha) pair aborts the sweep, and every
\* pair that produced no result is reported for its alpha.
C5_SweepIsolatesFailures ==
    /\ pc # "aborted"
    /\ \A k \in 1..Len(log) : log[k].outcome = "skipped" => log[k].reported

\* C6: every failure inside an operation reaches its caller as an error;
\* none is swallowed and replaced by an empty value or None.
C6_FailuresReachCaller ==
    call.internal # "none" => call.escaped # "none"

\* C7: a surface query that computes a non-finite Cp fails with
\* NumericInstabilityError rather than returning it.
C7_NonFiniteRaises ==
    (/\ call.op = "solve_flow"
     /\ result.kind = "dict"
     /\ \E i \in 1..Len(result.dict.Cp) : ~IsFinite(result.dict.Cp[i]))
        => call.escaped = "NumericInstabilityError"

\* C8: over the whole sweep create_panels runs at most once per geometry.
C8_PanelsBuiltOnce ==
    \A a \in DOMAIN builds : builds[a] <= 1

\* C9: solve_flow and compute_flow_field leave the caller's panel list as
\* create_panels returned it: same panels, same order, same field values.
C9_PanelsUnchanged ==
    panels = panelsAtBuild

\* a field query has followed a solve on built panels, one of them with
\* beta above pi
C9_Witness ==
    /\ call.op = "compute_flow_field"
    /\ result.kind = "dict"
    /\ field # NoList
    /\ \E i \in 1..Len(panels) : panels[i].beta > Pi

\* C10: the result solve_flow returns holds the per-panel geometry, Cp and
\* tangential velocity V_t.
C10_ResultHasGeometryCpVt ==
    result.kind = "dict" =>
        /\ {"panels", "Cp", "V_t"} \subseteq DOMAIN result.dict
        /\ Len(result.dict.Cp) = Len(result.dict.panels)

\* C11: sigma and Cp of a result have one entry per panel, result['panels']
\* is the input list in its order, and Cp[i] is the value lines 88-90 compute
\* from panels[i] and sigma[i].
C11_OutputsOrderedAsPanels ==
    result.kind = "dict" =>
        /\ Len(result.dict.sigma) = Len(panels)
        /\ Len(result.dict.Cp) = Len(panels)
        /\ result.dict.panels = panels
        /\ \A i \in 1..Len(panels) :
               result.dict.Cp[i] =
                   PressureCoeff(TangentialVelocity(panels[i], result.dict.sigma[i],
                                                    Radians[solvedFor.alpha_deg],
                                                    solvedFor.V_inf),
                                 solvedFor.V_inf)

\* a result over several panels whose Cp values differ, so that their order
\* shows
C11_Witness ==
    /\ result.kind = "dict"
    /\ Len(panels) >= 2
    /\ \E i \in 1..Len(panels) : \E j \in 1..Len(panels) :
           /\ IsFinite(result.dict.Cp[i])
           /\ result.dict.Cp[i] # result.dict.Cp[j]

\* a rectangle a caller wants sampled, wider than the one of lines 99-100
WantedGrid ==
    [xmin |-> -2 * Scale, xmax |-> 3 * Scale, ymin |-> -2 * Scale, ymax |-> 2 * Scale]

\* C12: a field query samples the rectangle the caller specified: the grid
\* has the caller's resolution, starts at the caller's (x-min, y-min) and,
\* with more than one point per axis, ends at the caller's (x-max, y-max).
C12_FieldSamplesCallersGrid ==
    field # NoList =>
        /\ Len(field) = fieldFor.res
        /\ \A r \in 1..Len(field) : Len(field[r]) = fieldFor.res
        /\ field[1][1].X = WantedGrid.xmin
        /\ field[1][1].Y = WantedGrid.ymin
        /\ fieldFor.res > 1 =>
               /\ field[fieldFor.res][fieldFor.res].X = WantedGrid.xmax
               /\ field[fieldFor.res][fieldFor.res].Y = WantedGrid.ymax

\* C13: create_panels returns num_panels panels, each ending where the next
\* starts, the last ending where the first starts, also for a raw contour
\* that was closed only within the closure tolerance.
C13_ResampledContourClosed ==
    panels # NoList =>
        /\ Len(panels) = num_panels
        /\ \A i \in 1..(Len(panels) - 1) :
               panels[i].x2 = panels[i + 1].x1 /\ panels[i].y2 = panels[i + 1].y1
        /\ panels[Len(panels)].x2 = panels[1].x1
        /\ panels[Len(panels)].y2 = panels[1].y1

\* C14: the state solve_flow returns holds the panels, the source strengths
\* and the freestream speed and angle of attack it was solved for.
C14_StateHoldsFreestream ==
    result.kind = "dict" =>
        /\ {"panels", "sigma", "V_inf", "alpha_deg"} \subseteq DOMAIN result.dict
        /\ result.dict.V_inf = solvedFor.V_inf
        /\ result.dict.alpha_deg = solvedFor.alpha_deg

\* whether the point (X, Y) is the midpoint or an endpoint of panel p
OnPanel(p, X, Y) ==
    \/ X = p.xc /\ Y = p.yc
    \/ X = p.x1 /\ Y = p.y1
    \/ X = p.x2 /\ Y = p.y2

\* C15: at a field point that is the midpoint or an endpoint of a panel, of
\* whatever length, compute_flow_field returns finite velocity and Cp.
C15_FieldFiniteOnPanels ==
    \A r \in 1..Len(field) : \A c \in 1..Len(field[r]) :
        (\E i \in 1..Len(panels) : OnPanel(panels[i], field[r][c].X, field[r][c].Y))
            => field[r][c].finite

\* a field with one point on the midpoint of a panel of positive length and
\* one point on an endpoint of such a panel, where the guard of the log acts
C15_Witness ==
    /\ field # NoList
    /\ \E r \in 1..Len(field) : \E c \in 1..Len(field[r]) : \E i \in 1..Len(panels) :
           /\ panels[i].length > 0
           /\ field[r][c].X = panels[i].xc /\ field[r][c].Y = panels[i].yc
           /\ field[r][c].finite
    /\ \E r \in 1..Len(field) : \E c \in 1..Len(field[r]) : \E i \in 1..Len(panels) :
           /\ panels[i].length > 0
           /\ field[r][c].X = panels[i].x1 /\ field[r][c].Y = panels[i].y1
           /\ field[r][c].finite

C18_FieldUsesSolvedSpeed ==
    (field # NoList /\ fieldFor.solved.V_inf > 0) =>
        /\ FieldFreestream(Radians[fieldFor.alpha_deg]).u =
               Mul[fieldFor.solved.V_inf, Cos[Radians[fieldFor.alpha_deg]]]
        /\ FieldFreestream(Radians[fieldFor.alpha_deg]).v =
               Mul[fieldFor.solved.V_inf, Sin[Radians[fieldFor.alpha_deg]]]
        /\ \A r \in 1..Len(field) : \A c \in 1..Len(field[r]) :
               Fin(field[r][c].Cp) =
                   OneMinusSquare(FDiv[field[r][c].V_mag, fieldFor.solved.V_inf])

\* the cylinder solution 1 - 4 sin^2(theta) at the midpoint of panel p
CpCylinder(p) ==
    With(Quo[p.yc, Hypot[p.xc, p.yc]], LAMBDA sn : Scale - 4 * Mul[sn, sn])

\* the largest error allowed on the coarsest polygon: half a unit of Cp
CylinderTol == Scale \div 2

\* C17: on the unit circle at alpha = 0 in unit freestream, the Cp of every
\* panel is within the tolerance of 1 - 4 sin^2(theta), for every panel
\* count.
C17_CylinderMatchesAnalytic ==
    (/\ result.kind = "dict"
     /\ solvedFor.alpha_deg = 0
     /\ solvedFor.V_inf = Scale)
        => \A i \in 1..Len(panels) :
               /\ IsFinite(result.dict.Cp[i])
               /\ Abs(result.dict.Cp[i].v - CpCylinder(panels[i])) <= CylinderTol

\* C19: an xfoil child is running only while run_xfoil_command is waiting
\* for it: once the call has returned, True or False, the child it started
\* has terminated.
C19_ChildTerminatedOnReturn ==
    \A a \in XfoilAirfoils :
        children[a] = "running" => (xpc.airfoil = a /\ xpc.at = "communicate")

\* C20: once the loop of run_analysis has moved past an airfoil, none of
\* its three temporary files exists in base_dir.
C20_TempFilesRemoved ==
    \A a \in XfoilAirfoils :
        (xpc.at \in {"prepare", "popen", "communicate", "parse", "cleanup", "done"}
         /\ a < xpc.airfoil)
            => \A e \in TempExts : base_dir[<<a, e>>] = "absent"

=============================================================================
